---- MODULE Spec2Model ----
(***************************************************************************)
(* Retrieval-augmented paper Q&A (ai_agent_rag): the chunker, the          *)
(* knowledge base and its lazy construction by the request handler, and    *)
(* the structured generation client.                                       *)
(*                                                                         *)
(*   SpecChunk : rag._chunk, one loop iteration per step                    *)
(*   SpecLLM   : llm.call_llm, one statement per step                        *)
(*   SpecKB    : KnowledgeBase(docs_glob), called directly                   *)
(*   Spec      : concurrent requests to app.ask_paper                        *)
(***************************************************************************)
EXTENDS Integers, Sequences, FiniteSets, TLC

VARIABLES
    \* ---- rag._chunk(text, size, overlap) ----
    ck_pc,        \* "off" | "call" | "loop" | "returned" | "raised"
    ck_text,      \* argument text: a sequence of characters
    ck_size,      \* argument size
    ck_overlap,   \* argument overlap
    start,        \* local start
    chunks,       \* local chunks: the list of substrings built so far
    spans,        \* history: <<start, end>> of every appended chunk
    \* ---- llm.call_llm(prompt) ----
    llm_pc,       \* "off" | "start" | "created" | "content" | "loads" | "repair"
                  \* | "parsed" | "returned" | "raised"
    llm_ctor,     \* environment: "ok" | "raises", what OpenAI(...) does
    llm_backend,  \* environment: "ok" or the exception create(...) raises
    llm_content,  \* environment: resp.choices[0].message.content
    text,         \* local text
    data,         \* local data
    llm_exc,      \* the exception the call handled or raised, or None
    llm_result,   \* the returned QueryResponse, Unset before the return
    n_create,     \* history: calls of client.chat.completions.create
    n_loads,      \* history: calls of json.loads
    n_repair,     \* history: calls of _strip_to_json
    \* ---- app.ask_paper and rag.KnowledgeBase ----
    fs,           \* environment: the files on disk, path -> cleaned length
    docs_glob,    \* the docs_glob argument of KnowledgeBase.__init__
    kb,           \* app.kb: NoKb (None) or the id of a KnowledgeBase
    heap,         \* the KnowledgeBase objects allocated so far, by id
    pc,           \* per request thread: where it is in ask_paper
    query,        \* per thread: query.query
    self,         \* per thread: the object its constructor call works on
    idxs,         \* per thread: idxs[0] of retrieve
    retrieved,    \* per thread: the list retrieve returned
    used,         \* per thread: the instance its retrieve ran on
    served,       \* history: the instances some retrieve ran on
    outcomes,     \* history: how the finished requests ended
    n_requests    \* history: requests started

ck_vars == <<ck_pc, ck_text, ck_size, ck_overlap, start, chunks, spans>>
llm_vars == <<llm_pc, llm_ctor, llm_backend, llm_content, text, data, llm_exc,
              llm_result, n_create, n_loads, n_repair>>
app_vars == <<fs, docs_glob, kb, heap, pc, query, self, idxs, retrieved, used,
              served, outcomes, n_requests>>
vars == <<ck_vars, llm_vars, app_vars>>

----------------------------------------------------------------------------
(* Bounds of the model *)
MaxTextLen == 6
MaxSize == 4
NumThreads == 2
MaxRequests == 2
MaxDocChunks == 2

Chars == {"a", "b"}

Min(a, b) == IF a < b THEN a ELSE b
Max(a, b) == IF a > b THEN a ELSE b
\* ceil(a / b) for a >= 0, b >= 1
CeilDiv(a, b) == (a + b - 1) \div b

SeqsUpTo(S, k) == UNION {[1..m -> S] : m \in 0..k}

----------------------------------------------------------------------------
(* Python slicing text[lo:hi] for 0 <= lo and 0 <= hi, on a sequence *)
Slice(s, lo, hi) == SubSeq(s, lo + 1, Min(hi, Len(s)))

(* rag.py:59  end = min(n, start + size) *)
WindowEnd_Short(n, st, size) == Min(n, st + size - 1)
WindowEnd(n, st, size) == Min(n, st + size)

(* rag.py:61  start = start + size - overlap *)
NextStart_NoOverlap(st, size, overlap) == st + size
NextStart(st, size, overlap) == st + size - overlap

(* rag.py:51-52  the guard of _chunk *)
ChunkCheck ==
    /\ ck_pc = "call"
    /\ ck_pc' = IF ck_overlap >= ck_size THEN "raised" ELSE "loop"
    /\ UNCHANGED <<ck_text, ck_size, ck_overlap, start, chunks, spans>>
    /\ UNCHANGED <<llm_vars, app_vars>>

(* rag.py:58-61  one iteration of the while loop *)
ChunkLoop ==
    /\ ck_pc = "loop"
    /\ start < Len(ck_text)
    /\ LET end == WindowEnd(Len(ck_text), start, ck_size) IN
         /\ chunks' = Append(chunks, Slice(ck_text, start, end))
         /\ spans' = Append(spans, <<start, end>>)
    /\ start' = NextStart(start, ck_size, ck_overlap)
    /\ UNCHANGED <<ck_pc, ck_text, ck_size, ck_overlap>>
    /\ UNCHANGED <<llm_vars, app_vars>>

(* rag.py:58,63  the loop condition fails: return chunks *)
ChunkReturn ==
    /\ ck_pc = "loop"
    /\ ~(start < Len(ck_text))
    /\ ck_pc' = "returned"
    /\ UNCHANGED <<ck_text, ck_size, ck_overlap, start, chunks, spans>>
    /\ UNCHANGED <<llm_vars, app_vars>>


----------------------------------------------------------------------------
(* llm.py: the structured generation client *)

\* Python's None where a string is expected, and a string value
NoneValue == [kind |-> "None"]
Str(s) == [kind |-> "str", v |-> s]
\* a local or a result that is not assigned yet
Unset == [unset |-> TRUE]
None == "None"

Range(s) == {s[i] : i \in DOMAIN s}

(* A backend text is a sequence of tokens: the code fence, the language tag,
   whitespace, the two braces, prose, a JSON array, and three member lists of
   a JSON object. *)
\* the three-backtick Markdown code fence
FENCE == "<fence>"
WS == "\n"
Members ==
    [ OK       |-> [answer     |-> [t |-> "str", v |-> <<"x">>],
                    references |-> [t |-> "list", v |-> <<"paper, chunk 1">>]],
      NOANSWER |-> [references |-> [t |-> "list", v |-> <<>>]],
      MISTYPED |-> [answer     |-> [t |-> "str", v |-> <<"x">>],
                    references |-> [t |-> "str", v |-> <<"paper">>]] ]

(* str.strip(): leading and trailing whitespace removed *)
RECURSIVE LStrip(_)
LStrip(s) == IF s # <<>> /\ Head(s) = WS THEN LStrip(Tail(s)) ELSE s
RECURSIVE RStrip(_)
RStrip(s) ==
    IF s # <<>> /\ s[Len(s)] = WS THEN RStrip(SubSeq(s, 1, Len(s) - 1)) ELSE s
Strip(s) == RStrip(LStrip(s))

(* json.loads(text): the value, or JSONDecodeError. Whitespace between tokens
   is insignificant; a document is an array or an object with zero or one
   member list. *)
JsonLoads(s) ==
    LET t == SelectSeq(s, LAMBDA c : c # WS) IN
    IF t = <<"[]">> THEN [ok |-> TRUE, value |-> [type |-> "array"]]
    ELSE IF t = <<"{", "}">>
        THEN [ok |-> TRUE, value |-> [type |-> "object", members |-> <<>>]]
    ELSE IF Len(t) = 3 /\ t[1] = "{" /\ t[3] = "}" /\ t[2] \in DOMAIN Members
        THEN [ok |-> TRUE,
              value |-> [type |-> "object", members |-> Members[t[2]]]]
    ELSE [ok |-> FALSE, value |-> Unset]

(* str.find / str.rfind: 0-based index, -1 when absent *)
Find(s, c) ==
    IF c \in Range(s)
    THEN (CHOOSE i \in DOMAIN s : s[i] = c /\ \A j \in 1..(i - 1) : s[j] # c) - 1
    ELSE -1
RFind(s, c) ==
    IF c \in Range(s)
    THEN (CHOOSE i \in DOMAIN s :
              s[i] = c /\ \A j \in (i + 1)..Len(s) : s[j] # c) - 1
    ELSE -1

(* llm.py:22  the re.sub call, anchored at both ends of the text: a fence at
   the very start goes with its language tag and the whitespace after it, a fence
   at the very end goes with the whitespace before it. *)
DropLeadingFence(s) ==
    IF s # <<>> /\ Head(s) = FENCE
    THEN LET r == Tail(s) IN
         LStrip(IF r # <<>> /\ Head(r) = "json" THEN Tail(r) ELSE r)
    ELSE s
DropTrailingFence(s) ==
    IF s # <<>> /\ s[Len(s)] = FENCE
    THEN RStrip(SubSeq(s, 1, Len(s) - 1))
    ELSE s
ReSubFences(s) == DropTrailingFence(DropLeadingFence(s))

(* llm.py:20-24 *)
_strip_to_json_ExclusiveEnd(s) ==
    LET t == IF FENCE \in Range(s) THEN ReSubFences(Strip(s)) ELSE s
        st == Find(t, "{")
        end == RFind(t, "}")
    IN IF st # -1 /\ end > st THEN Slice(t, st, end) ELSE t
_strip_to_json(s) ==
    LET t == IF FENCE \in Range(s) THEN ReSubFences(Strip(s)) ELSE s
        st == Find(t, "{")
        end == RFind(t, "}")
    IN IF st # -1 /\ end > st THEN Slice(t, st, end + 1) ELSE t

(* models.py:15-17  QueryResponse built from data: TypeError when data is no mapping,
   ValidationError when answer or references is missing or mistyped *)
Validate(d) ==
    IF d.type # "object" THEN "TypeError"
    ELSE IF /\ "answer" \in DOMAIN d.members
            /\ "references" \in DOMAIN d.members
            /\ d.members["answer"].t = "str"
            /\ d.members["references"].t = "list"
         THEN "ok"
         ELSE "ValidationError"

QueryResponse(answer, references) ==
    [answer |-> answer, references |-> references]

(* the exception classes of the openai package the handler at llm.py:50 names,
   with their subclasses *)
ApiErrors_NoRateLimit ==
    {"APIConnectionError", "APITimeoutError", "APIStatusError",
     "AuthenticationError"}
ApiErrors ==
    {"APIConnectionError", "APITimeoutError", "RateLimitError",
     "APIStatusError", "AuthenticationError"}

(* llm.py:50-53  the two except clauses *)
Handle(e) ==
    IF e \in ApiErrors
    THEN QueryResponse(<<"LLM error", ": ", e>>, <<>>)
    ELSE QueryResponse(<<"Parsing error", ": ", e>>, <<>>)

(* llm.py:27  client = get_client(), outside the try block *)
LlmGetClient ==
    /\ llm_pc = "start"
    /\ IF llm_ctor = "ok"
       THEN llm_pc' = "created" /\ UNCHANGED llm_exc
       ELSE llm_pc' = "raised" /\ llm_exc' = "OpenAIError"
    /\ UNCHANGED <<llm_ctor, llm_backend, llm_content, text, data, llm_result,
                   n_create, n_loads, n_repair>>
    /\ UNCHANGED <<ck_vars, app_vars>>

(* llm.py:37-41  the request; an exception goes to the handlers *)
LlmCreate ==
    /\ llm_pc = "created"
    /\ n_create' = n_create + 1
    /\ IF llm_backend = "ok"
       THEN llm_pc' = "content" /\ UNCHANGED <<llm_exc, llm_result>>
       ELSE /\ llm_pc' = "returned"
            /\ llm_exc' = llm_backend
            /\ llm_result' = Handle(llm_backend)
    /\ UNCHANGED <<llm_ctor, llm_backend, llm_content, text, data,
                   n_loads, n_repair>>
    /\ UNCHANGED <<ck_vars, app_vars>>

(* llm.py:42  text = resp.choices[0].message.content.strip() *)
LlmContent ==
    /\ llm_pc = "content"
    /\ IF llm_content = NoneValue
       THEN /\ llm_pc' = "returned"
            /\ llm_exc' = "AttributeError"
            /\ llm_result' = Handle("AttributeError")
            /\ UNCHANGED text
       ELSE /\ llm_pc' = "loads"
            /\ text' = Strip(llm_content.v)
            /\ UNCHANGED <<llm_exc, llm_result>>
    /\ UNCHANGED <<llm_ctor, llm_backend, llm_content, data,
                   n_create, n_loads, n_repair>>
    /\ UNCHANGED <<ck_vars, app_vars>>

(* llm.py:43-45  data = json.loads(text) *)
LlmLoads ==
    /\ llm_pc = "loads"
    /\ n_loads' = n_loads + 1
    /\ LET r == JsonLoads(text) IN
         IF r.ok
         THEN llm_pc' = "parsed" /\ data' = r.value
         ELSE llm_pc' = "repair" /\ UNCHANGED data
    /\ UNCHANGED <<llm_ctor, llm_backend, llm_content, text, llm_exc,
                   llm_result, n_create, n_repair>>
    /\ UNCHANGED <<ck_vars, app_vars>>

(* llm.py:46-47  text = _strip_to_json(text); data = json.loads(text) *)
LlmRepair ==
    /\ llm_pc = "repair"
    /\ n_repair' = n_repair + 1
    /\ n_loads' = n_loads + 1
    /\ text' = _strip_to_json(text)
    /\ LET r == JsonLoads(text') IN
         IF r.ok
         THEN /\ llm_pc' = "parsed" /\ data' = r.value
              /\ UNCHANGED <<llm_exc, llm_result>>
         ELSE /\ llm_pc' = "returned"
              /\ llm_exc' = "JSONDecodeError"
              /\ llm_result' = Handle("JSONDecodeError")
              /\ UNCHANGED data
    /\ UNCHANGED <<llm_ctor, llm_backend, llm_content, n_create>>
    /\ UNCHANGED <<ck_vars, app_vars>>

(* llm.py:48  return QueryResponse built from data *)
LlmRespond ==
    /\ llm_pc = "parsed"
    /\ llm_pc' = "returned"
    /\ LET v == Validate(data) IN
         IF v = "ok"
         THEN /\ llm_result' = QueryResponse(data.members["answer"].v,
                                             data.members["references"].v)
              /\ UNCHANGED llm_exc
         ELSE /\ llm_exc' = v
              /\ llm_result' = Handle(v)
    /\ UNCHANGED <<llm_ctor, llm_backend, llm_content, text, data,
                   n_create, n_loads, n_repair>>
    /\ UNCHANGED <<ck_vars, app_vars>>

(* What the backend may send: a body, possibly inside code fences, possibly
   with commentary before and after. *)
Prefixes == {<<>>, <<"hi", WS>>, <<"hi", "}", WS>>, <<"hi", "{", "hi", "}", WS>>}
Opens == {<<>>, <<FENCE, WS>>, <<FENCE, "json", WS>>}
Bodies == {<<"{", "OK", "}">>, <<"{", "NOANSWER", "}">>, <<"{", "MISTYPED", "}">>,
           <<"{", "}">>, <<"[]">>, <<"hi">>, <<>>}
Closes == {<<>>, <<WS, FENCE>>}
Suffixes == {<<>>, <<WS>>, <<WS, "hi">>, <<WS, "hi", "{">>, <<WS, "hi", "}">>}
Layout(pre, op, body, cl, suf) == pre \o op \o body \o cl \o suf
Contents ==
    {Layout(pre, op, body, cl, suf) :
        pre \in Prefixes, op \in Opens, body \in Bodies, cl \in Closes,
        suf \in Suffixes}

BackendFailures ==
    {"APIConnectionError", "APITimeoutError", "RateLimitError",
     "AuthenticationError"}
BackendOutcomes == {"ok", "APIResponseValidationError"} \cup BackendFailures

----------------------------------------------------------------------------
(* rag.py: the knowledge base *)

CHUNK_SIZE == 1500
CHUNK_OVERLAP == 100

(* the argument of _chunk as the constructor passes it: the cleaned text of
   one document, known here by its file and length; a chunk's text is the
   span of the document it was cut from *)
RECURSIVE ChunkSpans(_, _, _, _)
ChunkSpans(n, st, size, overlap) ==
    IF st < n
    THEN <<<<st, WindowEnd(n, st, size)>>>>
            \o ChunkSpans(n, NextStart(st, size, overlap), size, overlap)
    ELSE <<>>

(* The files that may be on disk, in the order sorted() gives their paths *)
AllPaths ==
    << [dir |-> "input", stem |-> "a", ext |-> ".tex"],
       [dir |-> "input", stem |-> "a", ext |-> ".txt"],
       [dir |-> "input", stem |-> "b", ext |-> ".tex"],
       [dir |-> "other", stem |-> "a", ext |-> ".tex"] >>
\* a path with no file on disk
Absent == -1
\* an object whose index attribute is not set yet
NoIndex == -1
\* cleaned lengths that give 0, 1, ..., MaxDocChunks chunks
DocLens ==
    {0} \cup {1 + (k - 1) * (CHUNK_SIZE - CHUNK_OVERLAP) : k \in 1..MaxDocChunks}

(* rag.py:69  the default of docs_glob, and other patterns a caller may pass *)
DefaultGlob == "input/*.tex"
Globs == {DefaultGlob, "input/a.*", "*/*.tex"}

(* glob.glob: whether the pattern matches the path *)
Matches(pattern, p) ==
    CASE pattern = "input/*.tex" -> p.dir = "input" /\ p.ext = ".tex"
      [] pattern = "input/a.*"   -> p.dir = "input" /\ p.stem = "a"
      [] pattern = "*/*.tex"     -> p.ext = ".tex"

(* rag.py:27  files = sorted(glob.glob(path_glob)), as indices of AllPaths *)
SortedGlob(pattern, disk) ==
    SelectSeq([i \in DOMAIN AllPaths |-> i],
              LAMBDA i : disk[i] # Absent /\ Matches(pattern, AllPaths[i]))

(* rag.py:35  title = os.path.splitext(os.path.basename(fp))[0] *)
Title(p) == p.stem

(* rag.py:24-46  _read_docs: (title, cleaned) per file; cleaned is known by
   the file it came from and its length *)
_read_docs(pattern, disk) ==
    LET files == SortedGlob(pattern, disk) IN
    [j \in DOMAIN files |->
        [title |-> Title(AllPaths[files[j]]),
         file |-> files[j],
         n |-> disk[files[j]]]]

(* rag.py:82  ref = f"{title}, chunk {i + 1}", for the 0-based i *)
Reference(title, i) == <<title, ", chunk ", i + 1>>

(* rag.py:80-83  the entries one document adds *)
DocEntries(doc) ==
    LET sp == ChunkSpans(doc.n, 0, CHUNK_SIZE, CHUNK_OVERLAP) IN
    [i \in DOMAIN sp |->
        [text |-> <<doc.file, sp[i][1], sp[i][2]>>,
         reference |-> Reference(doc.title, i - 1)]]

(* rag.py:79-83  the entries of all documents, in document order *)
RECURSIVE AllEntries(_)
AllEntries(docs) ==
    IF docs = <<>> THEN <<>>
    ELSE DocEntries(Head(docs)) \o AllEntries(Tail(docs))

(* rag.py:85  if not self.entries *)
NoChunks_Never(entries) == FALSE
NoChunks(entries) == entries = <<>>

(* The embedding model is opaque: a query scores entry i of n by position,
   one query preferring the early chunks and the other the late ones. *)
Queries == {"first", "last"}
Score(q, i) == IF q = "first" THEN 0 - i ELSE i

(* faiss IndexFlatIP.search: the labels of the k best inner products, best
   first, and -1 for every place past the ntotal vectors of the index *)
RECURSIVE Ranked(_, _)
Ranked(S, q) ==
    IF S = {} THEN <<>>
    ELSE LET best == CHOOSE i \in S : \A j \in S : Score(q, i) >= Score(q, j)
         IN <<best>> \o Ranked(S \ {best}, q)
Search(ntotal, q, k) ==
    LET r == Ranked(0..(ntotal - 1), q) IN
    [j \in 1..k |-> IF j <= ntotal THEN r[j] ELSE -1]

(* Python list indexing self.entries[int(i)]: negative i counts from the end *)
InRange(entries, i) == i < Len(entries) /\ i >= 0 - Len(entries)
PyIndex(entries, i) == IF i >= 0 THEN entries[i + 1] ELSE entries[Len(entries) + i + 1]

(* rag.py:121-126  the result list *)
Results(entries, labels) ==
    [j \in DOMAIN labels |->
        [text |-> PyIndex(entries, labels[j]).text,
         reference |-> PyIndex(entries, labels[j]).reference]]

----------------------------------------------------------------------------
(* app.py: the request handler *)

Threads == 1..NumThreads
NoKb == 0
TOP_K == 10

Returned(r) == [kind |-> "returned", response |-> r]
Raised(e) == [kind |-> "raised", exc |-> e]
NoQuery == "-"

(* llm.py:26-53  call_llm as a function of what its environment does *)
call_llm(ctor, backend, content) ==
    IF ctor # "ok" THEN Raised("OpenAIError")
    ELSE IF backend # "ok" THEN Returned(Handle(backend))
    ELSE IF content = NoneValue THEN Returned(Handle("AttributeError"))
    ELSE LET t == Strip(content.v)
             d == IF JsonLoads(t).ok THEN JsonLoads(t)
                  ELSE JsonLoads(_strip_to_json(t))
         IN IF ~d.ok THEN Returned(Handle("JSONDecodeError"))
            ELSE IF Validate(d.value) # "ok"
                 THEN Returned(Handle(Validate(d.value)))
                 ELSE Returned(QueryResponse(d.value.members["answer"].v,
                                             d.value.members["references"].v))

\* the backend behaviours a request is run against
AppBackends == {"ok", "APITimeoutError"}
AppContents == {Str(<<FENCE, "json", WS, "{", "OK", "}", WS, FENCE>>)}

(* the request of thread t ends with outcome o: its locals are gone *)
EndRequest(t, o) ==
    /\ pc' = [pc EXCEPT ![t] = "idle"]
    /\ outcomes' = outcomes \cup {o}
    /\ query' = [query EXCEPT ![t] = NoQuery]
    /\ self' = [self EXCEPT ![t] = NoKb]
    /\ idxs' = [idxs EXCEPT ![t] = <<>>]
    /\ retrieved' = [retrieved EXCEPT ![t] = <<>>]
    /\ used' = [used EXCEPT ![t] = NoKb]

(* app.py:20-22  a request arrives, FastAPI runs the handler on a worker
   thread, and the handler tests: if kb is None *)
AskCheck(t) ==
    /\ pc[t] = "idle"
    /\ n_requests < MaxRequests
    /\ n_requests' = n_requests + 1
    /\ pc' = [pc EXCEPT ![t] = IF kb = NoKb THEN "ctor" ELSE "retrieve"]
    /\ UNCHANGED <<fs, docs_glob, kb, heap, query, self, idxs, retrieved, used,
                   served, outcomes>>
    /\ UNCHANGED <<ck_vars, llm_vars>>

(* rag.py:72-73  the constructor starts: a new object with entries = [] *)
KbInit(t) ==
    /\ pc[t] = "ctor"
    /\ heap' = Append(heap, [entries |-> <<>>, ntotal |-> NoIndex])
    /\ self' = [self EXCEPT ![t] = Len(heap) + 1]
    /\ pc' = [pc EXCEPT ![t] = "read"]
    /\ UNCHANGED <<fs, docs_glob, kb, query, idxs, retrieved, used, served,
                   outcomes, n_requests>>
    /\ UNCHANGED <<ck_vars, llm_vars>>

(* rag.py:79-86  read and chunk the documents; RuntimeError without chunks *)
KbRead(t) ==
    /\ pc[t] = "read"
    /\ LET entries == AllEntries(_read_docs(docs_glob, fs)) IN
         /\ heap' = [heap EXCEPT ![self[t]].entries = entries]
         /\ IF NoChunks(entries)
            THEN EndRequest(t, Raised("RuntimeError"))
            ELSE /\ pc' = [pc EXCEPT ![t] = "index"]
                 /\ UNCHANGED <<query, self, idxs, retrieved, used, outcomes>>
    /\ UNCHANGED <<fs, docs_glob, kb, served, n_requests>>
    /\ UNCHANGED <<ck_vars, llm_vars>>

(* rag.py:92-106  encode the chunks and add one vector per entry to the index *)
KbIndex(t) ==
    /\ pc[t] = "index"
    /\ heap' = [heap EXCEPT ![self[t]].ntotal = Len(heap[self[t]].entries)]
    /\ pc' = [pc EXCEPT ![t] = "assign"]
    /\ UNCHANGED <<fs, docs_glob, kb, query, self, idxs, retrieved, used,
                   served, outcomes, n_requests>>
    /\ UNCHANGED <<ck_vars, llm_vars>>

(* app.py:23  kb = KnowledgeBase(): the store to the global *)
AskAssign(t) ==
    /\ pc[t] = "assign"
    /\ kb' = self[t]
    /\ self' = [self EXCEPT ![t] = NoKb]
    /\ pc' = [pc EXCEPT ![t] = "retrieve"]
    /\ UNCHANGED <<fs, docs_glob, heap, query, idxs, retrieved, used, served,
                   outcomes, n_requests>>
    /\ UNCHANGED <<ck_vars, llm_vars>>

(* app.py:25, rag.py:109-126  retrieved = kb.retrieve(query.query, top_k=10),
   on the object the global names at this moment; the request's query, an
   input, is drawn here, where it is first read *)
AskRetrieve(t) ==
    /\ pc[t] = "retrieve"
    /\ served' = served \cup {kb}
    /\ \E q \in Queries :
         LET obj == heap[kb]
             labels == Search(obj.ntotal, q, TOP_K)
         IN IF \A j \in DOMAIN labels : InRange(obj.entries, labels[j])
            THEN /\ query' = [query EXCEPT ![t] = q]
                 /\ idxs' = [idxs EXCEPT ![t] = labels]
                 /\ used' = [used EXCEPT ![t] = kb]
                 /\ retrieved' = [retrieved EXCEPT
                                    ![t] = Results(obj.entries, labels)]
                 /\ pc' = [pc EXCEPT ![t] = "llm"]
                 /\ UNCHANGED <<self, outcomes>>
            ELSE EndRequest(t, Raised("IndexError"))
    /\ UNCHANGED <<fs, docs_glob, kb, heap, n_requests>>
    /\ UNCHANGED <<ck_vars, llm_vars>>

(* app.py:26-27  return call_llm(build_prompt(query.query, retrieved)) *)
AskLLM(t) ==
    /\ pc[t] = "llm"
    /\ \E ctor \in {"ok", "raises"}, backend \in AppBackends,
          content \in AppContents :
          EndRequest(t, call_llm(ctor, backend, content))
    /\ UNCHANGED <<fs, docs_glob, kb, heap, served, n_requests>>
    /\ UNCHANGED <<ck_vars, llm_vars>>

ChunkIdle ==
    /\ ck_pc = "off" /\ ck_text = <<>> /\ ck_size = 0 /\ ck_overlap = 0
    /\ start = 0 /\ chunks = <<>> /\ spans = <<>>

LlmIdle ==
    /\ llm_pc = "off" /\ llm_ctor = "ok" /\ llm_backend = "ok"
    /\ llm_content = NoneValue /\ text = <<>> /\ data = Unset /\ llm_exc = None
    /\ llm_result = Unset /\ n_create = 0 /\ n_loads = 0 /\ n_repair = 0

AppIdle ==
    /\ fs = [i \in DOMAIN AllPaths |-> Absent]
    /\ docs_glob = DefaultGlob
    /\ kb = NoKb
    /\ heap = <<>>
    /\ pc = [t \in Threads |-> "off"]
    /\ query = [t \in Threads |-> NoQuery]
    /\ self = [t \in Threads |-> NoKb]
    /\ idxs = [t \in Threads |-> <<>>]
    /\ retrieved = [t \in Threads |-> <<>>]
    /\ used = [t \in Threads |-> NoKb]
    /\ served = {}
    /\ outcomes = {}
    /\ n_requests = 0

\* every disk over AllPaths
Disks == [DOMAIN AllPaths -> {Absent} \cup DocLens]

(* the process starts: kb = None (app.py:17), no request yet; the handler
   always builds with the default pattern *)
Init ==
    /\ fs \in {d \in Disks :
                 \A i \in DOMAIN AllPaths :
                     ~Matches(DefaultGlob, AllPaths[i]) => d[i] = Absent}
    /\ docs_glob = DefaultGlob
    /\ kb = NoKb
    /\ heap = <<>>
    /\ pc = [t \in Threads |-> "idle"]
    /\ query = [t \in Threads |-> NoQuery]
    /\ self = [t \in Threads |-> NoKb]
    /\ idxs = [t \in Threads |-> <<>>]
    /\ retrieved = [t \in Threads |-> <<>>]
    /\ used = [t \in Threads |-> NoKb]
    /\ served = {}
    /\ outcomes = {}
    /\ n_requests = 0
    /\ ChunkIdle
    /\ LlmIdle

(* a caller constructs KnowledgeBase(docs_glob) itself, with any pattern *)
InitKB ==
    /\ fs \in Disks
    /\ docs_glob \in Globs
    /\ kb = NoKb
    /\ heap = <<>>
    /\ pc = [t \in Threads |-> IF t = 1 THEN "ctor" ELSE "off"]
    /\ query = [t \in Threads |-> NoQuery]
    /\ self = [t \in Threads |-> NoKb]
    /\ idxs = [t \in Threads |-> <<>>]
    /\ retrieved = [t \in Threads |-> <<>>]
    /\ used = [t \in Threads |-> NoKb]
    /\ served = {}
    /\ outcomes = {}
    /\ n_requests = 0
    /\ ChunkIdle
    /\ LlmIdle

InitLLM ==
    /\ llm_pc = "start"
    /\ llm_ctor \in {"ok", "raises"}
    /\ llm_backend \in BackendOutcomes
    /\ llm_content \in
         IF llm_ctor = "ok" /\ llm_backend = "ok"
         THEN {Str(c) : c \in Contents} \cup {NoneValue} ELSE {NoneValue}
    /\ text = <<>> /\ data = Unset /\ llm_exc = None /\ llm_result = Unset
    /\ n_create = 0 /\ n_loads = 0 /\ n_repair = 0
    /\ ChunkIdle
    /\ AppIdle

InitChunk ==
    /\ ck_pc = "call"
    /\ ck_text \in SeqsUpTo(Chars, MaxTextLen)
    /\ ck_size \in 1..MaxSize
    /\ ck_overlap \in 0..MaxSize
    /\ start = 0
    /\ chunks = <<>>
    /\ spans = <<>>
    /\ LlmIdle
    /\ AppIdle

NextChunk == ChunkCheck \/ ChunkLoop \/ ChunkReturn

SpecChunk == InitChunk /\ [][NextChunk]_vars

NextKB == \E t \in Threads : KbInit(t) \/ KbRead(t) \/ KbIndex(t)

SpecKB == InitKB /\ [][NextKB]_vars

Next ==
    \E t \in Threads :
        \/ AskCheck(t)
        \/ KbInit(t)
        \/ KbRead(t)
        \/ KbIndex(t)
        \/ AskAssign(t)
        \/ AskRetrieve(t)
        \/ AskLLM(t)

Spec == Init /\ [][Next]_vars

NextLLM ==
    LlmGetClient \/ LlmCreate \/ LlmContent \/ LlmLoads \/ LlmRepair \/ LlmRespond

SpecLLM == InitLLM /\ [][NextLLM]_vars

----------------------------------------------------------------------------
(* Properties of _chunk *)

\* the number of source characters two windows have in common
Shared(a, b) == Max(0, Min(a[2], b[2]) - Max(a[1], b[1]))

\* the last k characters of chunk i are the first k characters of chunk i+1,
\* and the two windows have exactly k source characters in common
SharesExactly(i, k) ==
    /\ Shared(spans[i], spans[i + 1]) = k
    /\ Len(chunks[i]) >= k
    /\ Len(chunks[i + 1]) >= k
    /\ SubSeq(chunks[i], Len(chunks[i]) - k + 1, Len(chunks[i]))
         = SubSeq(chunks[i + 1], 1, k)

\* C6 (as stated): for a text of length L > 0 and overlap < size, _chunk
\* returns exactly ceil(max(L - O, 0) / (S - O)) chunks.
C6_CountAsStated ==
    (ck_pc = "returned" /\ Len(ck_text) > 0) =>
        Len(chunks) = CeilDiv(Max(Len(ck_text) - ck_overlap, 0),
                              ck_size - ck_overlap)

\* C6 (amended): for a text of length L > 0, size S >= 1 and overlap
\* 0 <= O < S, _chunk returns exactly ceil(L / (S - O)) chunks: one window
\* per start offset 0, S-O, 2(S-O), ... below L.
C6_ChunkCount ==
    (ck_pc = "returned" /\ Len(ck_text) > 0) =>
        Len(chunks) = CeilDiv(Len(ck_text), ck_size - ck_overlap)

\* C6 witness: a returned call with a positive overlap and several chunks
\* whose count differs from the stated formula.
C6_Witness ==
    /\ ck_pc = "returned"
    /\ ck_overlap > 0
    /\ Len(chunks) >= 3
    /\ Len(chunks) # CeilDiv(Max(Len(ck_text) - ck_overlap, 0),
                             ck_size - ck_overlap)

\* C7 (as stated): every pair of consecutive chunks shares exactly O
\* characters, except possibly the pair whose later member is the final chunk.
C7_OverlapAsStated ==
    ck_pc = "returned" =>
        \A i \in 1..(Len(chunks) - 2) : SharesExactly(i, ck_overlap)

\* C7 (amended): every pair of consecutive chunks whose earlier member is a
\* full window of S characters shares exactly O characters (the last O of the
\* earlier are the first O of the later); the exceptions are the pairs whose
\* earlier member is cut short by the end of the text, and when 2*O <= S the
\* only such pair is the one whose later member is the final chunk.
C7_Overlap ==
    ck_pc = "returned" =>
        \A i \in 1..(Len(chunks) - 1) :
            /\ Len(chunks[i]) = ck_size => SharesExactly(i, ck_overlap)
            /\ (2 * ck_overlap <= ck_size /\ i + 1 < Len(chunks))
                  => SharesExactly(i, ck_overlap)

\* C7 witness: a returned call with overlap above half the size in which a
\* pair that does not end the sequence shares fewer than O characters.
C7_Witness ==
    /\ ck_pc = "returned"
    /\ ck_overlap > 0
    /\ \E i \in 1..(Len(chunks) - 2) :
          /\ Len(chunks[i]) < ck_size
          /\ Shared(spans[i], spans[i + 1]) < ck_overlap
    /\ \E i \in 1..(Len(chunks) - 1) :
          Len(chunks[i]) = ck_size /\ SharesExactly(i, ck_overlap)

----------------------------------------------------------------------------
(* Properties of call_llm *)

IsFallback(r, category) == r.answer[1] = category /\ r.references = <<>>

\* C1: call_llm never raises: whatever the client constructor, the backend
\* and the returned content do, the call ends by returning a QueryResponse,
\* and a failure is returned as an error description with no references.
C1_NeverRaises ==
    /\ llm_pc # "raised"
    /\ (llm_pc = "returned" /\ llm_exc # None) =>
          (IsFallback(llm_result, "LLM error")
             \/ IsFallback(llm_result, "Parsing error"))

\* the statement-by-statement run and call_llm as a function agree
CallLlmAgrees ==
    /\ llm_pc = "raised" =>
          call_llm(llm_ctor, llm_backend, llm_content) = Raised(llm_exc)
    /\ llm_pc = "returned" =>
          call_llm(llm_ctor, llm_backend, llm_content) = Returned(llm_result)

\* the QueryResponse of the schema-valid object the backend texts embed
EmbeddedResponse ==
    QueryResponse(Members["OK"]["answer"].v, Members["OK"]["references"].v)

\* c is the schema-valid object between this commentary and these fences
Embeds(c, pre, op, cl, suf) == c = Layout(pre, op, <<"{", "OK", "}">>, cl, suf)

DirectlyValid(c) == JsonLoads(Strip(c)).ok

\* C9 (as stated): a text that is not valid JSON but holds a schema-valid
\* object inside code fences and/or between commentary is repaired once and
\* answered with the embedded object's answer and references; a text that is
\* valid JSON is never repaired.
C9_RepairAsStated ==
    (llm_pc = "returned" /\ llm_backend = "ok" /\ llm_content # NoneValue) =>
        LET c == llm_content.v IN
        /\ DirectlyValid(c) => n_repair = 0 /\ n_loads = 1
        /\ \A pre \in Prefixes, op \in Opens, cl \in Closes, suf \in Suffixes :
              (Embeds(c, pre, op, cl, suf) /\ ~DirectlyValid(c)) =>
                  /\ n_repair = 1
                  /\ n_loads = 2
                  /\ llm_result = EmbeddedResponse

\* C9 (amended): the same, provided the commentary before the object holds
\* no opening brace and the commentary after it holds no closing brace: the
\* repair takes the text from the first opening to the last closing brace of
\* the whole text, commentary included.
C9_Repair ==
    (llm_pc = "returned" /\ llm_backend = "ok" /\ llm_content # NoneValue) =>
        LET c == llm_content.v IN
        /\ DirectlyValid(c) => n_repair = 0 /\ n_loads = 1
        /\ \A pre \in Prefixes, op \in Opens, cl \in Closes, suf \in Suffixes :
              (/\ Embeds(c, pre, op, cl, suf)
               /\ ~DirectlyValid(c)
               /\ "{" \notin Range(pre)
               /\ "}" \notin Range(suf)) =>
                  /\ n_repair = 1
                  /\ n_loads = 2
                  /\ llm_result = EmbeddedResponse

\* C9 witness: a fenced object with commentary on both sides was repaired
\* and answered with the embedded object.
C9_Witness ==
    /\ llm_pc = "returned"
    /\ llm_content # NoneValue
    /\ \E pre \in Prefixes, op \in Opens, cl \in Closes, suf \in Suffixes :
          /\ Embeds(llm_content.v, pre, op, cl, suf)
          /\ "hi" \in Range(pre) /\ "hi" \in Range(suf)
          /\ FENCE \in Range(op) /\ FENCE \in Range(cl)
    /\ n_repair = 1
    /\ llm_result = EmbeddedResponse

\* the text is not valid JSON even after the repair pass, or is valid JSON
\* that does not match the QueryResponse schema
Malformed(c) ==
    LET t == Strip(c)
        d == IF JsonLoads(t).ok THEN JsonLoads(t)
             ELSE JsonLoads(_strip_to_json(t))
    IN ~d.ok \/ Validate(d.value) # "ok"

----------------------------------------------------------------------------
(* Properties of ask_paper and KnowledgeBase *)

\* a valid QueryResponse: an answer string and a list of references
IsQueryResponse(r) == DOMAIN r = {"answer", "references"}

\* C2: every request to ask_paper, whatever the state of the knowledge base,
\* ends by returning a valid QueryResponse; none ends in an exception.
C2_AskAlwaysResponds ==
    \A o \in outcomes :
        o.kind = "returned" /\ IsQueryResponse(o.response)

\* the threads that are inside the KnowledgeBase constructor, or hold a
\* constructed object they have not stored yet
Building == {t \in Threads : pc[t] \in {"read", "index", "assign"}}

\* C3: concurrent first requests start the constructor at most once: no two
\* builds overlap, at most one instance is ever completed, and every request
\* retrieves from that one instance.
C3_SingleInitialization ==
    /\ Cardinality(Building) <= 1
    /\ Cardinality({i \in DOMAIN heap : heap[i].ntotal # NoIndex}) <= 1
    /\ Cardinality(served) <= 1

\* C4: retrieve(query, k) on a built knowledge base of N >= 1 chunks returns
\* exactly min(k, N) results, each a distinct chunk of the corpus, also when
\* k is larger than N.
C4_RetrieveCount ==
    \A t \in Threads :
        pc[t] = "llm" =>
            LET N == Len(heap[used[t]].entries) IN
            /\ Len(retrieved[t]) = Min(TOP_K, N)
            /\ Len(idxs[t]) = Len(retrieved[t])
            /\ \A i, j \in DOMAIN idxs[t] :
                  /\ idxs[t][i] \in 0..(N - 1)
                  /\ i # j => idxs[t][i] # idxs[t][j]

\* the handler's pattern matches no file
EmptyCorpus == SortedGlob(DefaultGlob, fs) = <<>>

\* C5: when the pattern matches no file the constructor raises before any
\* index exists: kb stays unset, no object gets an index, no request reaches
\* retrieve, every request that ended has raised the construction error, and
\* every request that passed the check is constructing again.
C5_EmptyCorpusFails ==
    EmptyCorpus =>
        /\ kb = NoKb
        /\ \A i \in DOMAIN heap : heap[i].ntotal = NoIndex /\ heap[i].entries = <<>>
        /\ served = {}
        /\ outcomes \subseteq {Raised("RuntimeError")}
        /\ \A t \in Threads : pc[t] \in {"idle", "ctor", "read"}

\* C5 witness: with no file, a first request's construction has raised and
\* a later request is constructing again.
C5_Witness ==
    /\ EmptyCorpus
    /\ kb = NoKb
    /\ Len(heap) >= 2
    /\ Raised("RuntimeError") \in outcomes
    /\ \E t \in Threads : pc[t] = "read" /\ self[t] = Len(heap)

\* C8: the entries of a built KnowledgeBase carry pairwise distinct
\* references, whatever files the pattern matched.
C8_UniqueReferences ==
    \A k \in DOMAIN heap :
        heap[k].ntotal # NoIndex =>
            \A i, j \in DOMAIN heap[k].entries :
                i # j => heap[k].entries[i].reference
                           # heap[k].entries[j].reference

====
